---- MODULE Spec2Model ----
(***************************************************************************)
(* A model of tracker.py: the PinkNews / BBC topic tracker.  One run of    *)
(* main() loads the seen-URL state, fetches three PinkNews searches and    *)
(* the BBC topic page, filters the items, drops the URLs already seen,     *)
(* deduplicates / sorts / truncates, and writes the state and the feed.    *)
(*                                                                         *)
(* Strings are modelled as sequences of tokens: a substring test is a      *)
(* contiguous-subsequence test, a prefix test a prefix test.  An ISO date  *)
(* string "YYYY-MM-DD" is the triple <<y, m, d>> (comparing fixed-width    *)
(* digit strings is comparing the triples lexicographically); None and     *)
(* the empty string are <<>>.                                              *)
(***************************************************************************)
EXTENDS Integers, Sequences, FiniteSets, TLC

VARIABLES
    stateFile,   \* pink_state.json on disk
    outFile,     \* pinknews.json on disk
    pc,          \* position of the run of main()
    now,         \* datetime.now() of the run: <<y, m, d, h>>
    state,       \* main: the loaded state record, as the set of its seen_urls
    seen_urls,   \* main: the in-memory set of seen URLs
    loaded,      \* history: seen_urls as loaded at run start
    fellBack,    \* history: load_json returned its fallback
    items,       \* main: the items collected from the sources
    fetched,     \* history: what each source returned in this run
    cleaned,     \* main: the items accepted by the run
    out,         \* main: dedup_sort(cleaned)
    upstream,    \* the contents of the sources, when they are held fixed
    prevOut,     \* history: outFile when the run started
    prevDone,    \* history: the previous run completed
    prevNow,     \* history: datetime.now() of the previous run
    runs,        \* history: the number of runs started
    sortIn,      \* input list handed to dedup_sort on its own
    sortOut      \* its result

vars == <<stateFile, outFile, pc, now, state, seen_urls, loaded, fellBack, items,
          fetched, cleaned, out, upstream, prevOut, prevDone, prevNow,
          runs, sortIn, sortOut>>

----------------------------------------------------------------------------
(* Constants of the program.  The three caps are scaled down: the model    *)
(* keeps their role, not their size.                                       *)

LOOKBACK_YEARS == 5
\* MAX_ITEMS_TOTAL = 300 in tracker.py:16
MAX_ITEMS_TOTAL == 2
\* MAX_ITEMS_PER_FEED = 120 in tracker.py:17
MAX_ITEMS_PER_FEED == 3
\* the retained seen-URL count, 100000 in tracker.py:333
MAX_SEEN == 2
\* the scanned hrefs, 200 in tracker.py:266, and the fallback cap, 80 in tracker.py:282
HREF_SCAN == 2
FALLBACK_CAP == 1

PINKNEWS_DOMAIN == "pinknews.co.uk"
BBC_DOMAIN == "www.bbc.co.uk"

\* an abridged TOPIC_TERMS: a one-word term, a prefix of longer words, a phrase
TOPIC_TERMS == { <<"gay">>, <<"trans">>, <<"hate", " ", "crime">> }

None == <<>>

----------------------------------------------------------------------------
(* Strings as token sequences *)

Min(a, b) == IF a < b THEN a ELSE b

Take(s, n) == SubSeq(s, 1, Min(n, Len(s)))

\* sub in s
Contains(s, sub) ==
    \E i \in 1..(Len(s) - Len(sub) + 1) : SubSeq(s, i, i + Len(sub) - 1) = sub

StartsWith(s, pre) == Len(pre) <= Len(s) /\ SubSeq(s, 1, Len(pre)) = pre

LowerTok(t) ==
    CASE t = "Gay" -> "gay"
      [] t = "Trans" -> "trans"
      [] t = "Hate" -> "hate"
      [] t = "Crime" -> "crime"
      [] OTHER -> t

\* str.lower()
Lower(s) == [i \in 1..Len(s) |-> LowerTok(s[i])]

IsSpace(t) == t = " "

RECURSIVE LStrip(_)
LStrip(s) == IF s # <<>> /\ IsSpace(Head(s)) THEN LStrip(Tail(s)) ELSE s

RECURSIVE RStrip(_)
RStrip(s) == IF s # <<>> /\ IsSpace(s[Len(s)]) THEN RStrip(SubSeq(s, 1, Len(s) - 1)) ELSE s

\* str.strip()
Strip(s) == RStrip(LStrip(s))

IsTag(t) == t \in {"<b>", "</b>"}

RECURSIVE Squeeze(_)
\* re.sub(r"\s+", " ", s)
Squeeze(s) ==
    IF Len(s) < 2 THEN s
    ELSE IF IsSpace(s[1]) /\ IsSpace(s[2]) THEN Squeeze(Tail(s))
    ELSE <<Head(s)>> \o Squeeze(Tail(s))

strip_html(s) ==
    Strip(Squeeze([i \in 1..Len(s) |-> IF IsTag(s[i]) THEN " " ELSE s[i]]))

has_topic_signal(text) == \E k \in TOPIC_TERMS : Contains(Lower(text), k)

----------------------------------------------------------------------------
(* Dates *)

IsLeap(y) == (y % 4 = 0) /\ ((y % 100 # 0) \/ (y % 400 = 0))

DaysInMonth(y, m) ==
    CASE m \in {1, 3, 5, 7, 8, 10, 12} -> 31
      [] m \in {4, 6, 9, 11} -> 30
      [] OTHER -> IF IsLeap(y) THEN 29 ELSE 28

RECURSIVE DaysBeforeMonth(_, _)
DaysBeforeMonth(y, m) ==
    IF m <= 1 THEN 0 ELSE DaysBeforeMonth(y, m - 1) + DaysInMonth(y, m - 1)

\* does strptime(s, "%Y-%m-%d") / date.fromisoformat(s) accept the string
IsCalendarDate(p) ==
    /\ Len(p) = 3
    /\ p[1] \in 1..9999
    /\ p[2] \in 1..12
    /\ p[3] \in 1..DaysInMonth(p[1], p[2])

\* date.toordinal()
Ordinal(p) ==
    LET y1 == p[1] - 1
    IN  365 * y1 + (y1 \div 4) - (y1 \div 100) + (y1 \div 400)
          + DaysBeforeMonth(p[1], p[2]) + p[3]

\* A datetime in half days: 2 * ordinal for midnight, one more for any later
\* time of that day.
Midnight(p) == 2 * Ordinal(p)

Instant(n) == 2 * Ordinal(<<n[1], n[2], n[3]>>) + n[4]

\* main: datetime.now(timezone.utc) - timedelta(days=365 * LOOKBACK_YEARS)
Cutoff(n) == Instant(n) - 2 * (365 * LOOKBACK_YEARS)

\* the comparison made strict
within_lookback_strict(published_iso, cutoff) ==
    IF published_iso = None THEN TRUE
    ELSE IF IsCalendarDate(published_iso) THEN Midnight(published_iso) > cutoff
    ELSE TRUE

within_lookback(published_iso, cutoff) ==
    IF published_iso = None THEN TRUE
    ELSE IF IsCalendarDate(published_iso) THEN Midnight(published_iso) >= cutoff
    ELSE TRUE

\* A raw BBC date string is [ymd, rest]: its leading YYYY-MM-DD (<<>> when it has
\* none) and what follows.  fromisoformat accepts a calendar date followed by
\* nothing or by a time; otherwise the regex keeps a leading \d{4}-\d{2}-\d{2}.
normalise_bbc_date(s) ==
    IF s.ymd = <<>> /\ s.rest = "" THEN None
    ELSE IF IsCalendarDate(s.ymd) /\ s.rest \in {"", "T10:00:00Z"} THEN s.ymd
    ELSE IF Len(s.ymd) = 3 THEN s.ymd
    ELSE None

----------------------------------------------------------------------------
(* URLs *)

UP1 == <<"https://www.", PINKNEWS_DOMAIN, "/a">>
UP2 == <<"https://www.", PINKNEWS_DOMAIN, "/b">>
\* an article the sources no longer return
UOld == <<"https://www.", PINKNEWS_DOMAIN, "/old">>
UX  == <<"https://", "example.com", "/a">>
UB1 == <<"https://", BBC_DOMAIN, "/news/", "c">>
\* the same address followed by a blank
UB1s == UB1 \o <<" ">>
\* not https: accepted by fetch_bbc_topic_only, dropped by main
UBh == <<"http://", BBC_DOMAIN, "/news/", "c">>
\* a BBC page outside /news/
UBsport == <<"https://", BBC_DOMAIN, "/sport/", "c">>
\* the address built from the href /news/d
UBd == <<"https://", BBC_DOMAIN, "/news/", "d">>
\* a JSON value that is no string (the number 123)
NotAString == <<"#123">>

IsStr(v) == v # NotAString

\* url.startswith("http")
StartsWithHttp(u) == u # <<>> /\ Head(u) \in {"http://", "https://", "https://www."}

InPinkNews(u) == Contains(u, <<PINKNEWS_DOMAIN>>)

----------------------------------------------------------------------------
(* Items: the dictionaries of the program, with the keys the run reads or   *)
(* writes.  A key that is absent holds <<>>.                                *)

Item(title, url, published, source, summary, label, found_at) ==
    [title |-> title, url |-> url, published |-> published, source |-> source,
     summary |-> summary, label |-> label, found_at |-> found_at]

\* what parse_google_news_rss returns for one <item>
RssItem(title, url, published, summary) ==
    Item(title, url, published, <<"Google">>, summary, <<>>, <<>>)

----------------------------------------------------------------------------
(* dedup_sort *)

\* x.get("published") or "0000-00-00"
SortKey(it) == IF it.published = None THEN <<0, 0, 0>> ELSE it.published

\* string comparison a < b of two YYYY-MM-DD strings
KeyLess(a, b) ==
    \/ a[1] < b[1]
    \/ a[1] = b[1] /\ a[2] < b[2]
    \/ a[1] = b[1] /\ a[2] = b[2] /\ a[3] < b[3]

\* by_url[u] = it: a dict keeps a key at the place of its first insertion
DictPut(d, u, it) ==
    IF \E i \in 1..Len(d) : d[i].key = u
    THEN [i \in 1..Len(d) |-> IF d[i].key = u THEN [key |-> u, val |-> it] ELSE d[i]]
    ELSE Append(d, [key |-> u, val |-> it])

RECURSIVE ByUrl(_, _)
ByUrl(its, d) ==
    IF its = <<>> THEN d
    ELSE LET it == Head(its)
             u == Strip(it.url)
         IN  IF u = <<>> THEN ByUrl(Tail(its), d)
             ELSE ByUrl(Tail(its), DictPut(d, u, it))

\* the place of x in a list sorted descending, after the elements that do not
\* sort after it (list.sort is stable, with reverse=True too)
InsertDesc(sorted, x) ==
    LET n == Cardinality({i \in 1..Len(sorted) : ~KeyLess(SortKey(sorted[i]), SortKey(x))})
    IN  SubSeq(sorted, 1, n) \o <<x>> \o SubSeq(sorted, n + 1, Len(sorted))

RECURSIVE SortDesc(_, _)
SortDesc(its, sorted) ==
    IF its = <<>> THEN sorted ELSE SortDesc(Tail(its), InsertDesc(sorted, Head(its)))

\* the sort left out
dedup_sort_unsorted(its) ==
    LET d == ByUrl(its, <<>>)
    IN  Take([i \in 1..Len(d) |-> d[i].val], MAX_ITEMS_TOTAL)

dedup_sort(its) ==
    LET d == ByUrl(its, <<>>)
    IN  Take(SortDesc([i \in 1..Len(d) |-> d[i].val], <<>>), MAX_ITEMS_TOTAL)

----------------------------------------------------------------------------
(* fetch_pinknews_only: the body of its loop, for the batch of one query *)

NumQueries == 3

RECURSIVE PinkFilter(_, _)
PinkFilter(batch, cutoff) ==
    IF batch = <<>> THEN <<>>
    ELSE LET it == Head(batch)
             combined == it.title \o <<" ">> \o it.summary
         IN  IF /\ InPinkNews(it.url)
                /\ has_topic_signal(combined)
                /\ within_lookback(it.published, cutoff)
             THEN <<[it EXCEPT !.source = <<"PinkNews">>, !.label = <<"PinkNews">>]>>
                      \o PinkFilter(Tail(batch), cutoff)
             ELSE PinkFilter(Tail(batch), cutoff)

\* o is what fetch_text and parse_google_news_rss gave: [ok, batch]
PinkQuery(o, cutoff) ==
    IF ~o.ok THEN <<>> ELSE PinkFilter(Take(o.batch, MAX_ITEMS_PER_FEED), cutoff)

----------------------------------------------------------------------------
(* fetch_bbc_topic_only *)

BbcItem(title, url, published) ==
    Item(title, url, published, <<"BBC News">>, <<>>, <<"BBC topic">>, <<>>)

\* the loop over the JSON-LD candidates; acc is [items, seen, raised].  A url
\* that is no string passes the tests of seen and raises at url.startswith.
RECURSIVE BbcLoop(_, _, _)
BbcLoop(cands, cutoff, acc) ==
    IF cands = <<>> \/ acc.raised \/ Len(acc.items) >= MAX_ITEMS_PER_FEED THEN acc
    ELSE LET c == Head(cands)
             rest == Tail(cands)
         IN  IF c.url = <<>> \/ c.url \in acc.seen THEN BbcLoop(rest, cutoff, acc)
             ELSE LET acc1 == [acc EXCEPT !.seen = @ \cup {c.url}]
                      published == normalise_bbc_date(c.date)
                      title == IF c.name # <<>> THEN strip_html(c.name) ELSE <<"BBC News">>
                  IN  IF ~IsStr(c.url) THEN [acc1 EXCEPT !.raised = TRUE]
                      ELSE IF ~StartsWithHttp(c.url) THEN BbcLoop(rest, cutoff, acc1)
                      ELSE IF ~Contains(c.url, <<BBC_DOMAIN, "/news/">>) THEN BbcLoop(rest, cutoff, acc1)
                      ELSE IF ~within_lookback(published, cutoff) THEN BbcLoop(rest, cutoff, acc1)
                      ELSE BbcLoop(rest, cutoff,
                                   [acc1 EXCEPT !.items = Append(@, BbcItem(title, c.url, published))])

\* the loop over list(hrefs)[:200]; order is the order the set iterates in
RECURSIVE BbcFallback(_, _)
BbcFallback(hs, acc) ==
    IF hs = <<>> \/ Len(acc.items) >= FALLBACK_CAP THEN acc
    ELSE LET h == Head(hs)
             url == <<"https://", BBC_DOMAIN>> \o h
         IN  IF StartsWith(h, <<"/news/", "topics/">>) THEN BbcFallback(Tail(hs), acc)
             ELSE IF url \in acc.seen THEN BbcFallback(Tail(hs), acc)
             ELSE BbcFallback(Tail(hs),
                     [acc EXCEPT !.seen = @ \cup {url},
                                 !.items = Append(@, BbcItem(<<"BBC News">>, url, None))])

\* b is what fetch_text gave: [ok, cands, hrefs]; the result is [raised, items]
fetch_bbc_topic_only(b, cutoff, order) ==
    IF ~b.ok THEN [raised |-> FALSE, items |-> <<>>]
    ELSE LET acc == BbcLoop(b.cands, cutoff, [items |-> <<>>, seen |-> {}, raised |-> FALSE])
         IN  IF acc.raised THEN [raised |-> TRUE, items |-> <<>>]
             ELSE IF acc.items # <<>> THEN [raised |-> FALSE, items |-> acc.items]
             ELSE [raised |-> FALSE,
                   items |-> BbcFallback(Take(order, HREF_SCAN), [acc EXCEPT !.items = <<>>]).items]

----------------------------------------------------------------------------
(* main *)

\* load_json without its except clause: the failure reaches main
load_json_no_fallback(file) ==
    IF file.kind = "unreadable" THEN [kind |-> "array", urls |-> {}] ELSE file

\* load_json(STATE_FILE, {"seen_urls": []}): a file that cannot be opened or is
\* no JSON gives the fallback
load_json(file) ==
    IF file.kind = "unreadable" THEN [kind |-> "object", urls |-> {}] ELSE file

\* the loop of main over the collected items; acc is [cleaned, seen]
RECURSIVE CleanLoop(_, _, _)
CleanLoop(its, stamp, acc) ==
    IF its = <<>> THEN acc
    ELSE LET it == Head(its)
             url == it.url
         IN  IF url = <<>> THEN CleanLoop(Tail(its), stamp, acc)
             ELSE IF ~(InPinkNews(url) \/ StartsWith(url, <<"https://", BBC_DOMAIN, "/news/">>))
                  THEN CleanLoop(Tail(its), stamp, acc)
             ELSE IF url \in acc.seen THEN CleanLoop(Tail(its), stamp, acc)
             ELSE CleanLoop(Tail(its), stamp,
                     [cleaned |-> Append(acc.cleaned, [it EXCEPT !.found_at = stamp]),
                      seen |-> acc.seen \cup {url}])

\* the list written whole
Retained_all(seen) == {seen}

\* list(seen_urls)[:100000]: the lists a set can give, as sets
Retained(seen) ==
    {k \in SUBSET seen : Cardinality(k) = Min(MAX_SEEN, Cardinality(seen))}

\* the loop of main without "if url in seen_urls: continue"
RECURSIVE CleanLoopReemit(_, _, _)
CleanLoopReemit(its, stamp, acc) ==
    IF its = <<>> THEN acc
    ELSE LET it == Head(its)
             url == it.url
         IN  IF url = <<>> THEN CleanLoopReemit(Tail(its), stamp, acc)
             ELSE IF ~(InPinkNews(url) \/ StartsWith(url, <<"https://", BBC_DOMAIN, "/news/">>))
                  THEN CleanLoopReemit(Tail(its), stamp, acc)
             ELSE CleanLoopReemit(Tail(its), stamp,
                     [cleaned |-> Append(acc.cleaned, [it EXCEPT !.found_at = stamp]),
                      seen |-> acc.seen \cup {url}])

main_clean_reemit(its, stamp, seen) ==
    LET r == CleanLoopReemit(its, stamp, [cleaned |-> <<>>, seen |-> seen])
    IN  [cleaned |-> r.cleaned, seen |-> r.seen, out |-> dedup_sort(r.cleaned)]

\* the loop of main adding the accepted URLs to seen_urls only once it is over
RECURSIVE CleanLoopLateMark(_, _, _)
CleanLoopLateMark(its, stamp, acc) ==
    IF its = <<>> THEN acc
    ELSE LET it == Head(its)
             url == it.url
         IN  IF url = <<>> THEN CleanLoopLateMark(Tail(its), stamp, acc)
             ELSE IF ~(InPinkNews(url) \/ StartsWith(url, <<"https://", BBC_DOMAIN, "/news/">>))
                  THEN CleanLoopLateMark(Tail(its), stamp, acc)
             ELSE IF url \in acc.seen THEN CleanLoopLateMark(Tail(its), stamp, acc)
             ELSE CleanLoopLateMark(Tail(its), stamp,
                     [acc EXCEPT !.cleaned = Append(@, [it EXCEPT !.found_at = stamp])])

main_clean_late_mark(its, stamp, seen) ==
    LET r == CleanLoopLateMark(its, stamp, [cleaned |-> <<>>, seen |-> seen])
    IN  [cleaned |-> r.cleaned,
         seen |-> seen \cup {r.cleaned[i].url : i \in 1..Len(r.cleaned)},
         out |-> dedup_sort(r.cleaned)]

\* the loop of main and the call of dedup_sort: [cleaned, seen, out]
main_clean(its, stamp, seen) ==
    LET r == CleanLoop(its, stamp, [cleaned |-> <<>>, seen |-> seen])
    IN  [cleaned |-> r.cleaned, seen |-> r.seen, out |-> dedup_sort(r.cleaned)]

----------------------------------------------------------------------------
(* What the sources and the disk can hold *)

D_new  == <<2026, 10, 1>>
D_new2 == <<2026, 10, 2>>
\* 1825 days before 2026-11-02, and the day before that
D_edge == <<2021, 11, 3>>
D_old  == <<2021, 11, 2>>
\* a YYYY-MM-DD string that is no calendar date
D_bad  == <<2024, 13, 45>>

NowValues == { <<2026, 11, 2, 0>>, <<2026, 11, 2, 1>> }

T_gay == <<"Gay", " ", "news">>
T_transport == <<"trans", "port">>
T_weather == <<"weather">>

pA1   == RssItem(T_gay, UP1, D_new, <<"first">>)
pA2   == RssItem(T_gay, UP1, D_new2, <<"second">>)
pB    == RssItem(T_weather, UP2, None, <<"Hate", " ", "crime">>)
pW    == RssItem(T_weather, UP2, D_new, <<>>)
pOld  == RssItem(T_transport, UP2, D_old, <<>>)
pEdge == RssItem(T_transport, UP2, D_edge, <<>>)
pX    == RssItem(T_gay, UX, D_new, <<>>)

PinkBatches == { <<pA1, pA2, pB, pX>>, <<pX, pEdge, pW, pOld>> }

PinkOutcomes ==
    {[ok |-> FALSE, batch |-> <<>>]} \cup {[ok |-> TRUE, batch |-> k] : k \in PinkBatches}

Cand(url, name, date) == [url |-> url, name |-> name, date |-> date]

Iso(ymd) == [ymd |-> ymd, rest |-> "T10:00:00Z"]

cB1    == Cand(UB1, <<"<b>", "weather", "</b>">>, Iso(D_new))
cB1dup == Cand(UB1, <<"Gay">>, Iso(D_new2))
cB1s   == Cand(UB1s, <<"Gay">>, Iso(D_new2))
cBh    == Cand(UBh, <<"Gay">>, Iso(D_new))
cSport == Cand(UBsport, <<"Gay">>, Iso(D_new))
cOldD  == Cand(UBd, <<"Gay">>, Iso(D_old))
cBd    == Cand(UBd, <<>>, [ymd |-> D_bad, rest |-> "junk"])
cNoDate == Cand(UB1, <<"weather">>, [ymd |-> <<>>, rest |-> "junk"])
cEdge  == Cand(UB1s, <<"Gay">>, [ymd |-> D_edge, rest |-> ""])
cInt   == Cand(NotAString, <<"Gay">>, Iso(D_new))

hD == <<"/news/", "d">>
hE == <<"/news/", "e">>
hF == <<"/news/", "f">>
hT == <<"/news/", "topics/", "t">>

BbcPage(cands, hrefs) == [ok |-> TRUE, cands |-> cands, hrefs |-> hrefs]

BbcOutcomes ==
    { [ok |-> FALSE, cands |-> <<>>, hrefs |-> {}],
      BbcPage(<<cB1, cB1dup, cSport, cB1s, cBh, cBd>>, {hD}),
      BbcPage(<<cSport, cOldD>>, {hD, hE, hF, hT}),
      BbcPage(<<cBd, cNoDate, cEdge>>, {}),
      BbcPage(<<cB1, cInt>>, {hD}) }

\* the orders a set can iterate in
Orders(S) ==
    {f \in [1..Cardinality(S) -> S] : \A i, j \in 1..Cardinality(S) : i # j => f[i] # f[j]}

SeenUniverse == {UP1, UB1s, UOld}

Unreadable == [kind |-> "unreadable", urls |-> {}]

StateObject(urls) == [kind |-> "object", urls |-> urls]

\* pink_state.json before a run: absent or no JSON, JSON that is no object, or
\* what an earlier run wrote
StateFiles ==
    {Unreadable, [kind |-> "array", urls |-> {}]}
        \cup {StateObject(u) : u \in {k \in SUBSET SeenUniverse : Cardinality(k) <= MAX_SEEN}}

NoFeed == [kind |-> "none", items |-> <<>>]

Feed(its) == [kind |-> "feed", items |-> its]

BrokenFeed == [kind |-> "unreadable", items |-> <<>>]

NoTime == <<>>

----------------------------------------------------------------------------
(* The run of main(), step by step *)

\* the runs a behaviour follows
MaxRuns == 2

Fetching == pc = "fetch"

\* the run ended by an exception, raised at the named place
Failed == pc \in {"failed_load", "failed_bbc", "failed_save_state", "failed_save_out"}

\* main, lines 300-307: the cutoff, load_json and the seen set.  A state file
\* holding JSON that is no object makes state.get raise.
StartRun(n) ==
    /\ pc = "idle"
    /\ runs < MaxRuns
    /\ IF now = NoTime THEN TRUE ELSE Instant(n) >= Instant(now)
    /\ now' = n
    /\ LET st == load_json(stateFile)
       IN  IF st.kind = "array"
           THEN /\ pc' = "failed_load"
                /\ UNCHANGED <<state, seen_urls, loaded>>
           ELSE /\ pc' = "fetch"
                /\ state' = st
                /\ seen_urls' = st.urls
                /\ loaded' = st.urls
    /\ fellBack' = (stateFile.kind = "unreadable")
    /\ items' = <<>>
    /\ runs' = runs + 1
    /\ UNCHANGED <<stateFile, outFile, fetched, cleaned, out, upstream,
                   prevOut, prevDone, prevNow, sortIn, sortOut>>

\* one turn of the loop of fetch_pinknews_only
FetchPinkNews(o) ==
    /\ Fetching
    /\ Len(fetched) < NumQueries
    /\ LET got == PinkQuery(o, Cutoff(now))
       IN  /\ items' = items \o got
           /\ fetched' = Append(fetched, [src |-> "pinknews", ok |-> o.ok, raw |-> o.batch,
                                          raised |-> FALSE, got |-> got])
    /\ UNCHANGED <<stateFile, outFile, pc, now, state, seen_urls, loaded, fellBack, cleaned, out,
                   upstream, prevOut, prevDone, prevNow, runs, sortIn, sortOut>>

\* items += fetch_bbc_topic_only(cutoff); an exception it lets through ends the run
FetchBBC(b, order) ==
    /\ Fetching
    /\ Len(fetched) = NumQueries
    /\ LET r == fetch_bbc_topic_only(b, Cutoff(now), order)
       IN  /\ items' = items \o r.items
           /\ fetched' = Append(fetched, [src |-> "bbc", ok |-> b.ok, raw |-> b.cands,
                                          raised |-> r.raised, got |-> r.items])
           /\ pc' = IF r.raised THEN "failed_bbc" ELSE "clean"
    /\ UNCHANGED <<stateFile, outFile, now, state, seen_urls, loaded, fellBack, cleaned, out,
                   upstream, prevOut, prevDone, prevNow, runs, sortIn, sortOut>>

\* main, lines 311-331
Clean ==
    /\ pc = "clean"
    /\ LET r == main_clean(items, now, seen_urls)
       IN  /\ cleaned' = r.cleaned
           /\ seen_urls' = r.seen
           /\ out' = r.out
    /\ pc' = "save_state"
    /\ UNCHANGED <<stateFile, outFile, now, state, loaded, fellBack, items, fetched,
                   upstream, prevOut, prevDone, prevNow, runs, sortIn, sortOut>>

\* main, lines 333-334.  A write that fails leaves the file as it was or, once
\* open() has truncated it, unreadable.
SaveState(keep, ok, left) ==
    /\ pc = "save_state"
    /\ keep \in Retained(seen_urls)
    /\ state' = [state EXCEPT !.urls = keep]
    /\ IF ok
       THEN /\ stateFile' = StateObject(keep)
            /\ pc' = "save_out"
       ELSE /\ stateFile' = left
            /\ left \in {stateFile, Unreadable}
            /\ pc' = "failed_save_state"
    /\ UNCHANGED <<outFile, now, seen_urls, loaded, fellBack, items, fetched, cleaned, out,
                   upstream, prevOut, prevDone, prevNow, runs, sortIn, sortOut>>

\* main, line 335
SaveOut(ok, left) ==
    /\ pc = "save_out"
    /\ IF ok
       THEN /\ outFile' = Feed(out)
            /\ pc' = "done"
       ELSE /\ outFile' = left
            /\ left \in {outFile, BrokenFeed}
            /\ pc' = "failed_save_out"
    /\ UNCHANGED <<stateFile, now, state, seen_urls, loaded, fellBack, items, fetched, cleaned, out,
                   upstream, prevOut, prevDone, prevNow, runs, sortIn, sortOut>>

\* the next scheduled run of the script
Rerun ==
    /\ pc = "done" \/ Failed
    /\ pc' = "idle"
    /\ prevOut' = outFile
    /\ prevDone' = (pc = "done")
    /\ prevNow' = now
    /\ state' = Unreadable
    /\ seen_urls' = {}
    /\ loaded' = {}
    /\ fellBack' = FALSE
    /\ items' = <<>>
    /\ fetched' = <<>>
    /\ cleaned' = <<>>
    /\ out' = <<>>
    /\ UNCHANGED <<stateFile, outFile, now, upstream, runs, sortIn, sortOut>>

InitRun ==
    /\ pc = "idle"
    /\ now = NoTime
    /\ state = Unreadable
    /\ seen_urls = {}
    /\ loaded = {}
    /\ fellBack = FALSE
    /\ items = <<>>
    /\ fetched = <<>>
    /\ cleaned = <<>>
    /\ out = <<>>
    /\ outFile = NoFeed
    /\ prevOut = NoFeed
    /\ prevDone = FALSE
    /\ prevNow = NoTime
    /\ runs = 0
    /\ sortIn = <<>>
    /\ sortOut = <<>>

\* One run, from whatever an earlier run or anything else left in the state
\* file, against sources that may return anything at each fetch.
Init ==
    /\ InitRun
    /\ stateFile \in StateFiles
    /\ upstream = "any"

Next ==
    \/ \E n \in NowValues : StartRun(n)
    \/ \E o \in PinkOutcomes : FetchPinkNews(o)
    \/ \E b \in BbcOutcomes : \E order \in Orders(b.hrefs) : FetchBBC(b, order)
    \/ Clean
    \/ \E keep \in SUBSET seen_urls : \E left \in {stateFile, Unreadable} :
          \E ok \in BOOLEAN : SaveState(keep, ok, left)
    \/ \E left \in {outFile, BrokenFeed} : \E ok \in BOOLEAN : SaveOut(ok, left)

Spec == Init /\ [][Next]_vars

----------------------------------------------------------------------------
(* The script run again and again from a fresh install, against sources    *)
(* whose contents (and failures) stay what they are.                       *)

Worlds == [pink : [1..NumQueries -> PinkOutcomes], bbc : BbcOutcomes]

InitRepeat ==
    /\ InitRun
    /\ stateFile = Unreadable
    /\ upstream \in Worlds

NextRepeat ==
    \/ \E n \in NowValues : StartRun(n)
    \/ FetchPinkNews(upstream.pink[Len(fetched) + 1])
    \/ \E order \in Orders(upstream.bbc.hrefs) : FetchBBC(upstream.bbc, order)
    \/ Clean
    \/ \E keep \in SUBSET seen_urls : \E left \in {stateFile, Unreadable} :
          \E ok \in BOOLEAN : SaveState(keep, ok, left)
    \/ \E left \in {outFile, BrokenFeed} : \E ok \in BOOLEAN : SaveOut(ok, left)
    \/ Rerun

SpecRepeat == InitRepeat /\ [][NextRepeat]_vars

----------------------------------------------------------------------------
(* dedup_sort on its own, on every short list over a pool of items *)

MaxSortLen == 4

sA1 == Item(T_gay, UP1, <<2020, 1, 1>>, <<"PinkNews">>, <<"first">>, <<"PinkNews">>, NoTime)
sA2 == Item(T_gay, UP1, <<2022, 1, 1>>, <<"PinkNews">>, <<"second">>, <<"PinkNews">>, NoTime)
sB  == Item(T_gay, UP2, None, <<"PinkNews">>, <<>>, <<"PinkNews">>, NoTime)
sC  == Item(T_gay, UB1, <<2021, 1, 1>>, <<"BBC News">>, <<>>, <<"BBC topic">>, NoTime)
sCs == Item(T_gay, UB1s, <<2020, 1, 1>>, <<"BBC News">>, <<>>, <<"BBC topic">>, NoTime)
sD  == Item(T_gay, UBd, D_bad, <<"BBC News">>, <<>>, <<"BBC topic">>, NoTime)
sE  == Item(T_gay, UX, <<2020, 1, 1>>, <<"PinkNews">>, <<>>, <<"PinkNews">>, NoTime)
sBlank == Item(T_gay, <<" ">>, <<2022, 1, 1>>, <<"PinkNews">>, <<>>, <<"PinkNews">>, NoTime)

SortPool == {sA1, sA2, sB, sC, sCs, sD, sE, sBlank}

SortInputs == UNION {[1..k -> SortPool] : k \in 0..MaxSortLen}

InitSort ==
    /\ pc = "sort"
    /\ sortIn \in SortInputs
    /\ sortOut = <<>>
    /\ now = NoTime
    /\ state = Unreadable
    /\ seen_urls = {}
    /\ loaded = {}
    /\ fellBack = FALSE
    /\ items = <<>>
    /\ fetched = <<>>
    /\ cleaned = <<>>
    /\ out = <<>>
    /\ stateFile = Unreadable
    /\ outFile = NoFeed
    /\ upstream = "none"
    /\ prevOut = NoFeed
    /\ prevDone = FALSE
    /\ prevNow = NoTime
    /\ runs = 0

DedupSort ==
    /\ pc = "sort"
    /\ sortOut' = dedup_sort(sortIn)
    /\ pc' = "sorted"
    /\ UNCHANGED <<stateFile, outFile, now, state, seen_urls, loaded, fellBack, items, fetched,
                   cleaned, out, upstream, prevOut, prevDone, prevNow, runs, sortIn>>

NextSort == DedupSort

SpecSort == InitSort /\ [][NextSort]_vars

----------------------------------------------------------------------------
(* Properties *)

Urls(its) == {its[i].url : i \in 1..Len(its)}

\* the positions of the items of a list that carry the url u
At(its, u) == {i \in 1..Len(its) : its[i].url = u}

First(S) == CHOOSE i \in S : \A j \in S : i <= j

\* the run wrote both files
Done == pc = "done"

\* C1: a URL of the seen state loaded at the start of a run is in no entry of
\* the feed the run computes and writes, although the sources returned it.
C1_SeenNeverReemitted ==
    /\ \A i \in 1..Len(out) : out[i].url \notin loaded
    /\ Done => outFile = Feed(out)

\* a run that wrote a feed after the sources returned, through every filter of
\* the fetchers, a URL of the loaded seen state
C1_Witness ==
    /\ Done
    /\ out # <<>>
    /\ \E i \in 1..Len(items) : items[i].url \in loaded

\* C3, as stated: of two collected items with one url and different summaries,
\* the feed holds exactly one entry for the url, the later of the two.
C3_LaterWins ==
    Done =>
        \A i, j \in 1..Len(items) :
            (/\ i < j
             /\ items[i].url = items[j].url
             /\ items[i].summary # items[j].summary
             /\ \A k \in (j + 1)..Len(items) : items[k].url # items[j].url)
            => /\ Cardinality(At(out, items[j].url)) = 1
               /\ \A k \in At(out, items[j].url) : out[k].summary = items[j].summary

\* main's test of the source of a url
SourceOk(u) == InPinkNews(u) \/ StartsWith(u, <<"https://", BBC_DOMAIN, "/news/">>)

\* C3, amended: the feed holds at most one entry for a url, and it is the first
\* collected item of that url, stamped; it holds exactly one when the url was
\* not loaded as seen, passes main's source test, and neither the output cap
\* nor an accepted url equal to it up to blanks removes it.
C3_FirstWins ==
    Done =>
        \A u \in Urls(items) :
            /\ Cardinality(At(out, u)) <= 1
            /\ \A k \in At(out, u) :
                   out[k] = [items[First(At(items, u))] EXCEPT !.found_at = now]
            /\ (/\ u \notin loaded
                /\ SourceOk(u)
                /\ Cardinality(Urls(cleaned)) <= MAX_ITEMS_TOTAL
                /\ \A v \in Urls(cleaned) : Strip(v) = Strip(u) => v = u)
               => Cardinality(At(out, u)) = 1

\* a feed holding the entry of a url that two collected items with different
\* summaries carry
C3_Witness ==
    /\ Done
    /\ \E i, j \in 1..Len(items) :
          /\ i < j
          /\ items[i].url = items[j].url
          /\ items[i].summary # items[j].summary
          /\ At(out, items[i].url) # {}

\* C9: the seen set of a run only grows from the loaded set, by the URLs the
\* run accepts, and the list written at the end has at most MAX_SEEN entries,
\* each loaded at the start or accepted by the run.
C9_SeenLifecycle ==
    /\ [](/\ loaded \subseteq seen_urls
          /\ seen_urls = loaded \cup Urls(cleaned)
          /\ pc \in {"save_out", "done", "failed_save_out"} =>
                /\ Cardinality(stateFile.urls) <= MAX_SEEN
                /\ stateFile.urls \subseteq loaded \cup Urls(cleaned))
    /\ [][seen_urls \subseteq seen_urls']_vars

\* a run that accepted items and wrote a seen list cut to the cap
C9_Witness ==
    /\ Done
    /\ cleaned # <<>>
    /\ loaded # {}
    /\ Cardinality(seen_urls) > MAX_SEEN

\* C10, as stated: every URL of the feed a run writes is in the seen list the
\* run writes.
C10_FeedUrlsPersisted ==
    Done => \A i \in 1..Len(outFile.items) : outFile.items[i].url \in stateFile.urls

\* the items dedup_sort keeps before it cuts: the last of each url, blanks
\* stripped, the urls that are blank left out
Survivors(its) ==
    {its[i] : i \in {k \in 1..Len(its) :
                        /\ Strip(its[k].url) # <<>>
                        /\ \A j \in (k + 1)..Len(its) : Strip(its[j].url) # Strip(its[k].url)}}

FirstPos(its, it) == First({i \in 1..Len(its) : Strip(its[i].url) = Strip(it.url)})

\* an item whose published date is a calendar date, or is missing
Dated(it) == IsCalendarDate(it.published)
Comparable(it) == Dated(it) \/ it.published = None

\* the day of a dated item; a missing date is before every day
Rank(it) == IF Dated(it) THEN Ordinal(it.published) ELSE 0

Range(f) == {f[i] : i \in 1..Len(f)}

\* C4: dedup_sort returns at most MAX_ITEMS_TOTAL items, one per url, by date
\* descending with the missing dates after the dated ones, items of one date
\* in the order their urls first came in, and what the cut drops sorts last.
C4_SortTruncate ==
    pc = "sorted" =>
        /\ Len(sortOut) = Min(Cardinality(Survivors(sortIn)), MAX_ITEMS_TOTAL)
        /\ Len(sortOut) <= MAX_ITEMS_TOTAL
        /\ Range(sortOut) \subseteq Survivors(sortIn)
        /\ \A i, j \in 1..Len(sortOut) :
              i < j =>
                 /\ Strip(sortOut[i].url) # Strip(sortOut[j].url)
                 /\ Comparable(sortOut[i]) /\ Comparable(sortOut[j])
                       => Rank(sortOut[i]) >= Rank(sortOut[j])
                 /\ sortOut[i].published = sortOut[j].published
                       => FirstPos(sortIn, sortOut[i]) < FirstPos(sortIn, sortOut[j])
        /\ \A r \in Range(sortOut) : \A x \in Survivors(sortIn) \ Range(sortOut) :
              Comparable(r) /\ Comparable(x) => Rank(r) >= Rank(x)

\* a list of more urls than the cap, with an undated item, whose result holds
\* two items of one date and drops a dated one
C4_Witness ==
    /\ pc = "sorted"
    /\ Cardinality(Survivors(sortIn)) > MAX_ITEMS_TOTAL
    /\ \E x \in Survivors(sortIn) : x.published = None
    /\ \E x \in Survivors(sortIn) \ Range(sortOut) : Dated(x)
    /\ \E i, j \in 1..Len(sortOut) : i < j /\ sortOut[i].published = sortOut[j].published

\* the fetch or the parse of the k-th source of the run failed
SourceFailed(k) == ~fetched[k].ok \/ fetched[k].raised

\* C5, as stated: a source whose fetch or parse fails adds no item, the
\* sources after it are still to be attempted, and once all were attempted
\* the run is at, or past, the writes: no source failure ends the run.
C5_FailureIsolated ==
    /\ \A k \in 1..Len(fetched) : SourceFailed(k) => fetched[k].got = <<>>
    /\ \A k \in 1..Len(fetched) : fetched[k].src = (IF k <= NumQueries THEN "pinknews" ELSE "bbc")
    /\ (fetched # <<>> /\ Len(fetched) <= NumQueries) => pc = "fetch"
    /\ Len(fetched) = NumQueries + 1 =>
          pc \in {"clean", "save_state", "save_out", "done", "failed_save_state", "failed_save_out"}

\* C6, as stated: a state file that cannot be read ends the run, and so does a
\* write that fails; no feed is written then.
C6_PersistenceFatal ==
    /\ fellBack => pc = "failed_load"
    /\ pc = "failed_save_state" => outFile = prevOut
    /\ pc = "failed_save_out" => outFile.kind # "feed" \/ outFile = prevOut
    /\ Done => stateFile = StateObject(state.urls) /\ outFile = Feed(out)

\* C6, amended: a write of the state or of the feed that fails ends the run,
\* the feed unwritten; a state file that cannot be opened or holds no JSON is
\* replaced by the empty seen state and the run goes on; a state file holding
\* JSON that is no object ends the run at its start.
C6_WriteFatalReadFallsBack ==
    /\ fellBack => loaded = {} /\ state.urls \subseteq Urls(cleaned) /\ pc # "failed_load"
    /\ (runs > 0 /\ stateFile.kind = "array") => pc = "failed_load"
    /\ pc = "failed_save_state" => outFile = prevOut
    /\ pc = "failed_save_out" => outFile.kind # "feed" \/ outFile = prevOut
    /\ Done => stateFile = StateObject(state.urls) /\ outFile = Feed(out)

\* a run that went on from an unreadable state file, accepted items, wrote the
\* state and failed to write the feed
C6_Witness ==
    /\ fellBack
    /\ pc = "failed_save_out"
    /\ out # <<>>
    /\ stateFile.kind = "object"

\* a published date that is present, is a calendar date, and is before the
\* cutoff of a run at n
Older(p, n) == IsCalendarDate(p) /\ Midnight(p) < Cutoff(n)

\* the candidate of a BBC page that fetch_bbc_topic_only reads for a url
FirstCand(cands, u) == cands[First({i \in 1..Len(cands) : cands[i].url = u})]

\* the states the fetchers leave (the later steps do not touch fetched)
FetchersAct == pc \in {"fetch", "clean", "failed_bbc"}

\* C7: an item a fetcher reads is dropped by the recency check exactly when
\* its published date is a calendar date before the cutoff; a missing or
\* unparsable date is never dropped by it; and no entry of the feed has a
\* calendar date before the cutoff of its run.
C7_Lookback ==
    /\ \A k \in 1..Len(fetched) :
          (FetchersAct /\ fetched[k].src = "pinknews") =>
             \A i \in 1..Min(Len(fetched[k].raw), MAX_ITEMS_PER_FEED) :
                LET it == fetched[k].raw[i]
                IN  (InPinkNews(it.url) /\ has_topic_signal(it.title \o <<" ">> \o it.summary))
                    => ((\E g \in Range(fetched[k].got) :
                            /\ g.url = it.url /\ g.title = it.title
                            /\ g.summary = it.summary /\ g.published = it.published)
                        <=> ~Older(it.published, now))
    /\ \A k \in 1..Len(fetched) :
          (FetchersAct /\ fetched[k].src = "bbc" /\ fetched[k].ok /\ ~fetched[k].raised) =>
             /\ \A g \in Range(fetched[k].got) : ~Older(g.published, now)
             /\ Len(fetched[k].got) < MAX_ITEMS_PER_FEED =>
                   \A u \in {c.url : c \in Range(fetched[k].raw)} :
                      (StartsWithHttp(u) /\ Contains(u, <<BBC_DOMAIN, "/news/">>))
                      => (u \in Urls(fetched[k].got)
                          <=> ~Older(normalise_bbc_date(FirstCand(fetched[k].raw, u).date), now))
    /\ \A i \in 1..Len(out) : ~Older(out[i].published, now)
    /\ Done => outFile = Feed(out)

\* a run that dropped a PinkNews item for its date and wrote a feed holding an
\* entry with no date and an entry whose date is no calendar date
C7_Witness ==
    /\ Done
    /\ \E k \in 1..Len(fetched) :
          /\ fetched[k].src = "pinknews"
          /\ \E i \in 1..Min(Len(fetched[k].raw), MAX_ITEMS_PER_FEED) :
                /\ Older(fetched[k].raw[i].published, now)
                /\ InPinkNews(fetched[k].raw[i].url)
                /\ has_topic_signal(fetched[k].raw[i].title \o <<" ">> \o fetched[k].raw[i].summary)
    /\ \E j \in 1..Len(out) : out[j].published = None
    /\ \E j \in 1..Len(out) : out[j].published # None /\ ~IsCalendarDate(out[j].published)

\* the text a fetcher tests for a topic term
TopicText(it) ==
    IF it.label = <<"PinkNews">> THEN it.title \o <<" ">> \o it.summary ELSE Lower(it.title)

\* C8, as stated: every collected item and every entry of the feed, from
\* either source, has a topic term in its text.
C8_TopicGate ==
    /\ \A i \in 1..Len(items) : has_topic_signal(TopicText(items[i]))
    /\ \A i \in 1..Len(out) : has_topic_signal(TopicText(out[i]))

\* the published dates the sources hold
UpstreamDates ==
    UNION {{upstream.pink[q].batch[i].published : i \in 1..Len(upstream.pink[q].batch)} :
              q \in 1..NumQueries}
        \cup {normalise_bbc_date(upstream.bbc.cands[i].date) : i \in 1..Len(upstream.bbc.cands)}

\* no item is in the lookback window of one of the two runs only
NoExpiry ==
    \A p \in UpstreamDates :
        within_lookback(p, Cutoff(prevNow)) <=> within_lookback(p, Cutoff(now))

\* C2, as stated: a run that follows a completed run, the sources unchanged and
\* no item leaving the lookback window, accepts nothing and leaves the feed
\* as the first run wrote it.
C2_Idempotent ==
    (Done /\ prevDone /\ NoExpiry) => (cleaned = <<>> /\ outFile = prevOut)

====
